---- MODULE Spec2Model ----
(***************************************************************************)
(* Agent control plane of opencode-dashboard: the Store rows of agents and *)
(* agent tasks, the AgentLifecycleManager singleton (idle timers, error    *)
(* counters, push throttles, sleep schedule), the HTTP handlers and the    *)
(* Temporal activities that write the same rows.                           *)
(*                                                                         *)
(* Time is Date.now() in milliseconds (variable now); the Store keeps      *)
(* whole seconds, Math.floor(Date.now() / 1000).                           *)
(***************************************************************************)
EXTENDS Integers, Sequences, FiniteSets, TLC

VARIABLES
  now,              \* Date.now(), milliseconds
  agents,           \* Store: agent id -> agent row (domain = existing agents)
  tasks,            \* Store: task id -> agent_task row (domain = existing tasks)
  idleTimers,       \* lifecycle.idleTimers: agent id -> due time (ms) of the setTimeout handle the map holds
  timeouts,         \* the setTimeout handles of the idle monitor that are neither cleared nor run: [agent, due]
  errorCounters,    \* lifecycle.errorCounters: the key `${agentId}:${taskId}` -> [count, windowStart]
  messageThrottles, \* lifecycle.messageThrottles: agent id -> [lastSent, count]
  sleepSchedule,    \* lifecycle.sleepSchedule: [startHour, endHour, enabled]
  pushLog,          \* history: per agent, the times of the latest shouldSendMessage(a,'push') calls that returned true
  errorLog,         \* history: per <<agentId, taskId>>, the times of the latest recordError calls
  monitorLog,       \* history: agent id -> time (ms) of its latest refreshHeartbeat, assignTask or waking
                    \* triggerWake, absent once a completeTask or a triggerSleep has cleared the timer since
  last,             \* the operation that ran last: its name, arguments, result and the calls it made
  rateLimitBuckets, \* middleware rateLimitBuckets: client ip -> timestamps (ms) of its recent allowed requests
  allowLog,         \* history: per client ip, the times of the latest requests checkRateLimit allowed
  issues,           \* Store: Linear issue id -> mirror row (domain = existing rows)
  request,          \* the webhook delivery served last: [payload, signature, secret, status]
  scheduled,        \* Alert Engine: the delayed alerts whose timer is pending
  firing,           \* Alert Engine: the alerts whose timer has fired and whose delivery has not run yet
  messages,         \* Store: the alerts delivered as Message rows
  stopping,         \* the admin stop request that is suspended in an await: [active, agent, remaining, at]
  listeners,        \* event bus: the listeners of 'dashboard-event' in registration order: [id, fails]
  received          \* history: per listener id, the events its callback was run with

\* the variables of the HTTP edge (rate limiter, webhook ingest) and of the Alert Engine
edge == <<rateLimitBuckets, allowLog, issues, request>>
engine == <<scheduled, firing, messages>>
\* the variables of the suspended stop request and of the event bus's listeners
conc == <<stopping, listeners, received>>

vars == <<now, agents, tasks, idleTimers, timeouts, errorCounters, messageThrottles,
          sleepSchedule, pushLog, errorLog, monitorLog, last, edge, engine, conc>>

-----------------------------------------------------------------------------
(* Bounds of the model *)

AgentIds == {"a1", "a2"}
TaskIds == {"t1", "t2"}
MaxErrors == 6          \* recordError is not called once a counter holds this many
MaxNowErr == 602000     \* where the clock stops in SpecErr (ms)
MaxNowIdle == 303000    \* where the clock stops in SpecIdle (ms)
MaxNowPush == 7202000   \* where the clock stops in SpecThrottle (ms)
MaxNowRate == 121000    \* where the clock stops in SpecRate (ms)
RateLimitMaxRequests == 3   \* RATE_LIMIT_MAX_REQUESTS as configured for the model

(* Program constants *)

IdleTimeoutMs == 300000        \* 5 * 60 * 1000, setTimeout delay of the idle monitor
IdleBlockSeconds == 300        \* heartbeatAge > 300
IdleTooLongSeconds == 1800     \* heartbeatAge > 1_800
ErrorWindowMs == 600000        \* now - counter.windowStart > 600_000
SleepThreshold == 5            \* counter.count >= 5
BlockThreshold == 3            \* counter.count >= 3
ThrottleWindowMs == 3600000    \* now - throttle.lastSent > 3_600_000
ThrottleMax == 3               \* throttle.count >= 3
RateLimitWindowMs == 60000     \* DEFAULT_RATE_LIMIT_WINDOW_MS

NULL == "null"                 \* a null id (current_task_id)
NoTime == -1                   \* a null timestamp (blocked_at, started_at, completed_at, last_heartbeat)

AgentStatuses == {"idle", "working", "blocked", "sleeping", "offline"}
TaskStatuses == {"pending", "in_progress", "blocked", "completed", "cancelled"}
Terminal == {"completed", "cancelled"}

Seconds(ms) == ms \div 1000    \* Math.floor(Date.now() / 1000)

-----------------------------------------------------------------------------
(* The Store (lib/db): rows are merged field by field; an update of a      *)
(* missing row fails NotFound; a second row with the same id is a Conflict *)

\* What one handler run works on: the rows, the timers, whether it has thrown,
\* and what it handed to the event bus, to the Alert Engine and to other methods.
\* seen holds, for each event handed to the bus, the rows the Store held at
\* that call; alertsFail is how alertEngine.processEvent fails during the run.
Ctx == [agents |-> agents, tasks |-> tasks, idleTimers |-> idleTimers, timeouts |-> timeouts,
        errorCounters |-> errorCounters, messageThrottles |-> messageThrottles,
        issues |-> issues, threw |-> FALSE, ret |-> "void", events |-> <<>>, alerts |-> <<>>, calls |-> <<>>,
        seen |-> <<>>, alertsFail |-> "no"]

Throw(S) == [S EXCEPT !.threw = TRUE]

HasAgent(S, a) == a \in DOMAIN S.agents
HasTask(S, t) == t \in DOMAIN S.tasks

NewAgentRow == [status |-> "idle", current_task_id |-> NULL, last_heartbeat |-> NoTime]

NewTaskRow(a, st, startedAt, completedAt) ==
  [agent_id |-> a, status |-> st, blocked_reason |-> NULL, blocked_at |-> NoTime,
   started_at |-> startedAt, completed_at |-> completedAt]

createAgent(S, a) ==
  IF S.threw THEN S
  ELSE IF HasAgent(S, a) THEN Throw(S)
  ELSE [S EXCEPT !.agents = (a :> NewAgentRow) @@ S.agents]

updateAgent(S, a, fields) ==
  IF S.threw THEN S
  ELSE IF ~HasAgent(S, a) THEN Throw(S)
  ELSE [S EXCEPT !.agents = [S.agents EXCEPT ![a] = fields @@ S.agents[a]]]

createAgentTask(S, t, row) ==
  IF S.threw THEN S
  ELSE IF HasTask(S, t) THEN Throw(S)
  ELSE [S EXCEPT !.tasks = (t :> row) @@ S.tasks]

updateAgentTask(S, t, fields) ==
  IF S.threw THEN S
  ELSE IF ~HasTask(S, t) THEN Throw(S)
  ELSE [S EXCEPT !.tasks = [S.tasks EXCEPT ![t] = fields @@ S.tasks[t]]]

deleteAgentTask(S, t) ==
  IF S.threw THEN S
  ELSE [S EXCEPT !.tasks = [x \in DOMAIN S.tasks \ {t} |-> S.tasks[x]]]

deleteAgent(S, a) ==
  IF S.threw THEN S
  ELSE [S EXCEPT !.agents = [x \in DOMAIN S.agents \ {a} |-> S.agents[x]]]

\* the mirror rows of the external tracker's issues
HasIssue(S, i) == i \in DOMAIN S.issues

upsertLinearIssue(S, i, row) ==
  IF S.threw THEN S ELSE [S EXCEPT !.issues = (i :> row) @@ S.issues]

deleteLinearIssue(S, i) ==
  IF S.threw THEN S
  ELSE [S EXCEPT !.issues = [x \in DOMAIN S.issues \ {i} |-> S.issues[x]]]

\* db.linkAgentToIssue(issueId, taskId): sets LinearIssue.agent_task_id
linkAgentToIssue(S, i, t) ==
  IF S.threw \/ ~HasIssue(S, i) THEN S
  ELSE [S EXCEPT !.issues = [S.issues EXCEPT ![i] = [agent_task_id |-> t] @@ S.issues[i]]]

\* db.getAgentTasks(agentId)
getAgentTasks(S, a) == {t \in DOMAIN S.tasks : S.tasks[t].agent_id = a}

PendingTasks(S, a) == {t \in getAgentTasks(S, a) : S.tasks[t].status = "pending"}

\* a call the handler makes, kept for the record of the run
Called(S, what) ==
  IF S.threw THEN S ELSE [S EXCEPT !.calls = Append(S.calls, what)]

\* eventBus.publish({type: 'agent:status', payload: {action, ...}})
publish(S, action) ==
  IF S.threw THEN S
  ELSE [S EXCEPT !.events = Append(S.events, action),
                 !.seen = Append(S.seen, [agents |-> S.agents, tasks |-> S.tasks])]

\* alertEngine.processEvent({trigger, agentId, taskId, ...}): a plain call whose
\* result is dropped, so a failure reaches the caller when it is an exception
\* and is lost when it is a rejected promise
processEvent(S, trigger, a, t) ==
  IF S.threw THEN S
  ELSE IF S.alertsFail = "throws" THEN Throw(Called(S, <<"processEvent", "throws">>))
  ELSE IF S.alertsFail = "rejects" THEN Called(S, <<"processEvent", "rejects">>)
  ELSE [S EXCEPT !.alerts = Append(S.alerts, [trigger |-> trigger, agentId |-> a, taskId |-> t])]

\* the value a method returns: "true", "false" or "void"
Return(S, value) ==
  IF S.threw THEN S ELSE [S EXCEPT !.ret = value]

-----------------------------------------------------------------------------
(* AgentLifecycleManager *)

\* clearTimeout(timer) of the handle the map holds for a, and its removal
clearIdleMonitor(S, a) ==
  IF S.threw \/ a \notin DOMAIN S.idleTimers THEN S
  ELSE [S EXCEPT !.idleTimers = [x \in DOMAIN S.idleTimers \ {a} |-> S.idleTimers[x]],
                 !.timeouts = @ \ {[agent |-> a, due |-> S.idleTimers[a]]}]

\* a startIdleMonitor that does not clear the timer the agent already has
startIdleMonitorKeeping(S, a) ==
  IF S.threw THEN S
  ELSE [S EXCEPT !.idleTimers = (a :> now + IdleTimeoutMs) @@ S.idleTimers,
                 !.timeouts = @ \cup {[agent |-> a, due |-> now + IdleTimeoutMs]}]

startIdleMonitor(S, a) ==
  IF S.threw THEN S
  ELSE LET S1 == clearIdleMonitor(S, a)
       IN  [S1 EXCEPT !.idleTimers = (a :> now + IdleTimeoutMs) @@ S1.idleTimers,
                      !.timeouts = @ \cup {[agent |-> a, due |-> now + IdleTimeoutMs]}]

\* assignTask({agentId, taskId, linearIssueId, ...}); a failure to link is logged only
assignLinearTask(S, a, t, linearIssueId) ==
  IF ~HasAgent(S, a) THEN Throw(S)
  ELSE LET S1 == createAgentTask(S, t, NewTaskRow(a, "pending", NoTime, NoTime))
           S2 == updateAgent(S1, a, [status |-> "working", current_task_id |-> t,
                                     last_heartbeat |-> Seconds(now)])
           S3 == startIdleMonitor(S2, a)
           S4 == IF linearIssueId = NULL THEN S3 ELSE linkAgentToIssue(S3, linearIssueId, t)
       IN  publish(S4, "task_assigned")

\* assignTask without a linearIssueId
assignTask(S, a, t) == assignLinearTask(S, a, t, NULL)

detectBlocked(S, a, source, t) ==
  IF S.threw THEN S
  ELSE LET S0 == Called(S, <<"detectBlocked", source, t>>)
       IN  IF ~HasTask(S0, t) THEN S0
           ELSE LET S1 == updateAgentTask(S0, t, [status |-> "blocked", blocked_reason |-> source,
                                                  blocked_at |-> Seconds(now)])
                    S2 == updateAgent(S1, a, [status |-> "blocked", current_task_id |-> t])
                    S3 == processEvent(S2, "blocked", a, t)
                IN  publish(S3, "blocked")

\* a triggerSleep that lets an offline agent fall asleep
triggerSleepFromOffline(S, a) ==
  IF S.threw THEN S
  ELSE LET S0 == Called(S, <<"triggerSleep">>)
       IN  IF ~HasAgent(S0, a) \/ S0.agents[a].status = "sleeping" THEN S0
           ELSE publish(clearIdleMonitor(updateAgent(S0, a, [status |-> "sleeping"]), a), "sleep")

triggerSleep(S, a) ==
  IF S.threw THEN S
  ELSE LET S0 == Called(S, <<"triggerSleep">>)
       IN  IF ~HasAgent(S0, a) \/ S0.agents[a].status \in {"sleeping", "offline"} THEN S0
           ELSE publish(clearIdleMonitor(updateAgent(S0, a, [status |-> "sleeping"]), a), "sleep")

triggerWake(S, a) ==
  IF S.threw THEN S
  ELSE IF ~HasAgent(S, a) \/ S.agents[a].status # "sleeping" THEN S
  ELSE publish(startIdleMonitor(updateAgent(S, a, [status |-> "idle",
                                                   last_heartbeat |-> Seconds(now)]), a), "wake")

refreshHeartbeat(S, a) ==
  startIdleMonitor(updateAgent(S, a, [last_heartbeat |-> Seconds(now)]), a)

\* The hour Intl.DateTimeFormat renders for the wall-clock hour h (0..23) with
\* hour12: false, read back by Number.parseInt: midnight is rendered "24" by
\* runtimes that resolve hour12: false to the h24 cycle and "0" by the others.
FormattedHours(h) == IF h = 0 THEN {0, 24} ELSE {h}

\* isInSleepWindow() once currentHour is parsed
InWindow(sched, currentHour) ==
  IF ~sched.enabled THEN FALSE
  ELSE IF sched.startHour < sched.endHour
       THEN currentHour >= sched.startHour /\ currentHour < sched.endHour
       ELSE currentHour >= sched.startHour \/ currentHour < sched.endHour

completeTask(S, a, t, inWindow) ==
  IF S.threw THEN S
  ELSE IF ~HasTask(S, t) THEN S
  ELSE LET S1 == updateAgentTask(S, t, [status |-> "completed", completed_at |-> Seconds(now)])
           S2 == IF PendingTasks(S1, a) = {}
                 THEN IF inWindow THEN triggerSleep(S1, a)
                      ELSE updateAgent(S1, a, [status |-> "idle", current_task_id |-> NULL])
                 ELSE updateAgent(S1, a, [current_task_id |-> NULL])
           S3 == clearIdleMonitor(S2, a)
           S4 == processEvent(S3, "completed", a, t)
       IN  publish(S4, "task_completed")

-----------------------------------------------------------------------------
(* Temporal activities *)

registerAgent(S, a) ==
  publish(IF HasAgent(S, a) THEN S ELSE createAgent(S, a), "registered")

startAgentTask(S, a, t) ==
  LET S1 == IF HasTask(S, t) /\ S.tasks[t].agent_id = a THEN S ELSE assignTask(S, a, t)
      S2 == updateAgent(S1, a, [status |-> "working", current_task_id |-> t,
                                last_heartbeat |-> Seconds(now)])
      S3 == updateAgentTask(S2, t, [status |-> "in_progress", started_at |-> Seconds(now)])
  IN  publish(S3, "task_started")

\* taskStatus is "undefined" when the optional argument is absent
updateDashboard(S, a, agentStatus, t, taskStatus, inWindow) ==
  IF taskStatus = "blocked" THEN detectBlocked(S, a, "explicit", t)
  ELSE IF taskStatus = "completed" THEN completeTask(S, a, t, inWindow)
  ELSE LET S1 == updateAgent(S, a,
                   IF agentStatus \in {"idle", "offline"}
                   THEN [status |-> agentStatus, last_heartbeat |-> Seconds(now),
                         current_task_id |-> NULL]
                   ELSE [status |-> agentStatus, last_heartbeat |-> Seconds(now)])
           S2 == IF taskStatus = "undefined" THEN S1
                 ELSE updateAgentTask(S1, t,
                        IF taskStatus = "cancelled"
                        THEN [status |-> taskStatus, completed_at |-> Seconds(now)]
                        ELSE IF taskStatus = "in_progress"
                        THEN [status |-> taskStatus, blocked_reason |-> NULL, blocked_at |-> NoTime]
                        ELSE [status |-> taskStatus])
       IN  publish(S2, "dashboard")

-----------------------------------------------------------------------------
(* HTTP handlers *)

\* POST /api/agents/{id}/tasks
createTaskRoute(S, a, t, taskStatus) ==
  IF ~HasAgent(S, a) THEN S
  ELSE LET S1 == createAgentTask(S, t,
                   NewTaskRow(a, taskStatus,
                              IF taskStatus = "in_progress" THEN Seconds(now) ELSE NoTime,
                              IF taskStatus \in Terminal THEN Seconds(now) ELSE NoTime))
           S2 == updateAgent(S1, a, [current_task_id |-> t, status |-> "working"])
       IN  publish(S2, "task_created")

\* PATCH /api/agents/{id}/tasks/{taskId} with body {status?, blocked_reason?};
\* an absent field is "undefined"
patchTaskRoute(S, a, t, dataStatus, dataReason) ==
  IF ~HasAgent(S, a) THEN S
  ELSE IF ~HasTask(S, t) \/ S.tasks[t].agent_id # a THEN S
  ELSE LET existingTask == S.tasks[t]
           u0 == IF dataStatus # "undefined" THEN [status |-> dataStatus] ELSE <<>>
           u1 == IF dataReason # "undefined" THEN [blocked_reason |-> dataReason] @@ u0 ELSE u0
           \* if (data.status === 'blocked')
           u2 == IF dataStatus = "blocked"
                 THEN [blocked_at |-> Seconds(now),
                       blocked_reason |-> IF dataReason \in {"undefined", NULL}
                                          THEN existingTask.blocked_reason ELSE dataReason] @@ u1
                 ELSE u1
           S2 == IF dataStatus = "blocked"
                 THEN updateAgent(S, a, [status |-> "blocked", current_task_id |-> t])
                 ELSE S
           \* if (data.status === 'completed')
           u3 == IF dataStatus = "completed" THEN [completed_at |-> Seconds(now)] @@ u2 ELSE u2
           S3 == IF dataStatus = "completed"
                 THEN publish(updateAgent(S2, a, [status |-> "idle", current_task_id |-> NULL]),
                              "task_completed")
                 ELSE S2
           \* if (data.status === 'cancelled')
           S4 == IF dataStatus = "cancelled"
                 THEN publish(updateAgent(S3, a, [status |-> "idle", current_task_id |-> NULL]),
                              "task_cancelled")
                 ELSE S3
           \* if (data.status === 'in_progress')
           u5 == IF dataStatus = "in_progress"
                 THEN [started_at |-> IF existingTask.started_at = NoTime THEN Seconds(now)
                                      ELSE existingTask.started_at,
                       blocked_reason |-> NULL, blocked_at |-> NoTime] @@ u3
                 ELSE u3
           S5 == IF dataStatus = "in_progress"
                 THEN updateAgent(S4, a, [status |-> "working", current_task_id |-> t])
                 ELSE S4
       IN  publish(updateAgentTask(S5, t, u5), "task_updated")

\* POST /api/agents/{id}/actions {action: 'sleep'}
actionSleep(S, a) ==
  IF ~HasAgent(S, a) THEN S
  ELSE publish(updateAgent(S, a, [status |-> "sleeping"]), "sleep")

\* POST /api/agents/{id}/actions {action: 'stop'}
actionStop(S, a) ==
  IF ~HasAgent(S, a) THEN S
  ELSE LET inProgressTasks == {t \in getAgentTasks(S, a) : S.tasks[t].status = "in_progress"}
           S1 == [S EXCEPT !.tasks = [t \in DOMAIN S.tasks |->
                     IF t \in inProgressTasks
                     THEN [status |-> "cancelled", completed_at |-> Seconds(now)] @@ S.tasks[t]
                     ELSE S.tasks[t]]]
       IN  publish(updateAgent(S1, a, [status |-> "offline", current_task_id |-> NULL]), "stop")

\* one turn of the stop action's loop, up to its await of signalWorkflow; at is
\* the time the handler read when it started
stopCancel(S, t, at) ==
  updateAgentTask(S, t, [status |-> "cancelled", completed_at |-> at])

\* the stop action after its loop
stopFinish(S, a) ==
  publish(updateAgent(S, a, [status |-> "offline", current_task_id |-> NULL]), "stop")

\* POST /api/agents/{id}/actions {action: 'unblock'}; blockedTask is the row
\* getAgentTasks(id).find(status === 'blocked') returns, NULL when there is none
actionUnblock(S, a, blockedTask) ==
  IF ~HasAgent(S, a) THEN S
  ELSE IF blockedTask = NULL THEN S
  ELSE LET row == S.tasks[blockedTask]
           S1 == updateAgentTask(S, blockedTask,
                   [status |-> "in_progress", blocked_reason |-> NULL, blocked_at |-> NoTime,
                    started_at |-> IF row.started_at = NoTime THEN Seconds(now)
                                   ELSE row.started_at])
           S2 == updateAgent(S1, a, [status |-> "working", current_task_id |-> blockedTask])
       IN  publish(S2, "unblock")

\* POST /api/agents/{id}/actions {action: 'restart'}
actionRestart(S, a) ==
  IF ~HasAgent(S, a) THEN S
  ELSE publish(updateAgent(S, a, [status |-> "idle", current_task_id |-> NULL]), "restart")

\* PATCH /api/agents/{id} with body {status?, current_task_id?}; an absent
\* field is "undefined", current_task_id may be null
patchAgentRoute(S, a, dataStatus, dataCurrent) ==
  LET u0 == IF dataStatus # "undefined" THEN [status |-> dataStatus] ELSE <<>>
      u1 == IF dataCurrent # "undefined" THEN [current_task_id |-> dataCurrent] @@ u0 ELSE u0
  IN  publish(updateAgent(S, a, u1), "updated")

\* DELETE /api/agents/{id}
deleteAgentRoute(S, a) ==
  IF ~HasAgent(S, a) THEN S
  ELSE deleteAgent([S EXCEPT !.tasks = [x \in DOMAIN S.tasks \ getAgentTasks(S, a) |-> S.tasks[x]]], a)

\* the rows find() may return for action 'unblock'
BlockedChoices(a) ==
  LET b == {t \in getAgentTasks(Ctx, a) : tasks[t].status = "blocked"}
  IN  IF b = {} THEN {NULL} ELSE b

-----------------------------------------------------------------------------
(* AgentLifecycleManager: error aggregation, push throttle, idle check *)

\* const key = `${agentId}:${taskId}`
ErrorKey(a, t) == a \o ":" \o t

\* !counter || now - counter.windowStart > 600_000
NewErrorWindow(S, key) ==
  key \notin DOMAIN S.errorCounters \/ now - S.errorCounters[key].windowStart > ErrorWindowMs

\* recordError answering true on the third and the fifth error only
recordErrorExact(S, a, t) ==
  LET key == ErrorKey(a, t) IN
  IF NewErrorWindow(S, key)
  THEN Return([S EXCEPT !.errorCounters = (key :> [count |-> 1, windowStart |-> now])
                                          @@ S.errorCounters], "false")
  ELSE LET count == S.errorCounters[key].count + 1
           S1 == [S EXCEPT !.errorCounters[key].count = count]
       IN  IF count = SleepThreshold
           THEN Return(triggerSleep(detectBlocked(S1, a, "repeated_errors", t), a), "true")
           ELSE IF count = BlockThreshold
           THEN Return(detectBlocked(S1, a, "repeated_errors", t), "true")
           ELSE Return(S1, "false")

recordError(S, a, t) ==
  LET key == ErrorKey(a, t) IN
  IF NewErrorWindow(S, key)
  THEN Return([S EXCEPT !.errorCounters = (key :> [count |-> 1, windowStart |-> now])
                                          @@ S.errorCounters], "false")
  ELSE LET count == S.errorCounters[key].count + 1
           S1 == [S EXCEPT !.errorCounters[key].count = count]
       IN  IF count >= SleepThreshold
           THEN Return(triggerSleep(detectBlocked(S1, a, "repeated_errors", t), a), "true")
           ELSE IF count >= BlockThreshold
           THEN Return(detectBlocked(S1, a, "repeated_errors", t), "true")
           ELSE Return(S1, "false")

\* !throttle || now - throttle.lastSent > 3_600_000
NewThrottleWindow(S, a) ==
  a \notin DOMAIN S.messageThrottles \/ now - S.messageThrottles[a].lastSent > ThrottleWindowMs

\* shouldSendMessage refusing one send too late (count > 3)
shouldSendMessageOffByOne(S, a, type) ==
  IF type = "in_app" THEN Return(S, "true")
  ELSE IF NewThrottleWindow(S, a)
  THEN Return([S EXCEPT !.messageThrottles = (a :> [lastSent |-> now, count |-> 1])
                                             @@ S.messageThrottles], "true")
  ELSE IF S.messageThrottles[a].count > ThrottleMax THEN Return(S, "false")
  ELSE Return([S EXCEPT !.messageThrottles[a] =
                          [lastSent |-> now, count |-> S.messageThrottles[a].count + 1]], "true")

shouldSendMessage(S, a, type) ==
  IF type = "in_app" THEN Return(S, "true")
  ELSE IF NewThrottleWindow(S, a)
  THEN Return([S EXCEPT !.messageThrottles = (a :> [lastSent |-> now, count |-> 1])
                                             @@ S.messageThrottles], "true")
  ELSE IF S.messageThrottles[a].count >= ThrottleMax THEN Return(S, "false")
  ELSE Return([S EXCEPT !.messageThrottles[a] =
                          [lastSent |-> now, count |-> S.messageThrottles[a].count + 1]], "true")

\* heartbeatAge > limit, where heartbeatAge is Infinity for a null (or zero) last_heartbeat
HeartbeatOlderThan(row, limit) ==
  row.last_heartbeat \in {NoTime, 0} \/ Seconds(now) - row.last_heartbeat > limit

\* firstPending is pendingTasks[0], one of the agent's pending tasks when there are any
checkIdle(S, a, firstPending) ==
  IF ~HasAgent(S, a) \/ S.agents[a].status # "working" THEN S
  ELSE LET agent == S.agents[a]
           S1 == IF HeartbeatOlderThan(agent, IdleBlockSeconds) /\ agent.current_task_id # NULL
                 THEN detectBlocked(S, a, "idle", agent.current_task_id)
                 ELSE S
       IN  IF HeartbeatOlderThan(agent, IdleTooLongSeconds) /\ firstPending \in PendingTasks(S1, a)
           THEN processEvent(S1, "idle_too_long", a, firstPending)
           ELSE S1

-----------------------------------------------------------------------------
(* Middleware: IP rate limiter *)

\* rateLimitBuckets.get(ip) || []
Bucket(B, ip) == IF ip \in DOMAIN B THEN B[ip] ELSE <<>>

\* bucket.filter((timestamp) => timestamp > windowStart)
RecentRequests(B, ip) ==
  LET windowStart == now - RateLimitWindowMs
      Recent(timestamp) == timestamp > windowStart
  IN  SelectSeq(Bucket(B, ip), Recent)

\* checkRateLimit letting one request too many through (length > maxRequests)
checkRateLimitOffByOne(B, ip) ==
  LET recentRequests == RecentRequests(B, ip) IN
  IF Len(recentRequests) > RateLimitMaxRequests
  THEN [buckets |-> (ip :> recentRequests) @@ B, allowed |-> FALSE]
  ELSE [buckets |-> (ip :> Append(recentRequests, now)) @@ B, allowed |-> TRUE]

checkRateLimit(B, ip) ==
  LET recentRequests == RecentRequests(B, ip) IN
  IF Len(recentRequests) >= RateLimitMaxRequests
  THEN [buckets |-> (ip :> recentRequests) @@ B, allowed |-> FALSE]
  ELSE [buckets |-> (ip :> Append(recentRequests, now)) @@ B, allowed |-> TRUE]

-----------------------------------------------------------------------------
(* Webhook Ingest (app/api/linear/webhook/route.ts). A payload is the      *)
(* parsed body: type, action, data.id, data.state.type and                 *)
(* data.assignee.displayName, NULL where the body leaves the field out.    *)

\* trim and lowercase, on the names that occur
normalizeName(value) ==
  CASE value = NULL -> ""
    [] value = "A1 " -> "a1"
    [] OTHER -> value

isAutoAssignmentState(stateType) == normalizeName(stateType) \in {"started", "in_progress"}

\* createHmac('sha256', secret).update(rawBody).digest('hex') as a term:
\* two digests are equal only for the same body and the same key
Hmac(rawBody, secret) == <<rawBody, secret, "hex">>

\* the same digest written with upper-case hex digits
UpperHex(digest) == <<digest[1], digest[2], "HEX">>

\* a comparison that ignores the case of the hex digits
verifyWebhookSignatureAnyCase(rawBody, signature, secret) ==
  signature \in {Hmac(rawBody, secret), UpperHex(Hmac(rawBody, secret))}

verifyWebhookSignature(rawBody, signature, secret) == signature = Hmac(rawBody, secret)

NoIssue == [state_type |-> NULL, assignee_name |-> NULL, agent_task_id |-> NULL, synced_at |-> NoTime]

LinearTaskId(i) == "linear_" \o i

upsertIssueFromWebhook(S, data) ==
  IF S.threw THEN S
  ELSE LET existing == IF HasIssue(S, data.id) THEN S.issues[data.id] ELSE NoIssue
           row == [state_type |-> IF data.state_type # NULL THEN data.state_type
                                  ELSE existing.state_type,
                   assignee_name |-> IF data.assignee_name # NULL THEN data.assignee_name
                                     ELSE existing.assignee_name,
                   agent_task_id |-> existing.agent_task_id,
                   synced_at |-> Seconds(now)]
       IN  publish(upsertLinearIssue(S, data.id, row), "todo:updated")

\* an agent is registered under its id as its name
MatchedAgents(S, assignee) == {a \in DOMAIN S.agents : normalizeName(a) = assignee}

\* auto-assignment that does not look at agent_task_id
maybeAutoAssignIssueUnlinked(S, i) ==
  IF S.threw THEN S
  ELSE IF ~HasIssue(S, i) THEN S
  ELSE IF ~isAutoAssignmentState(S.issues[i].state_type) THEN S
  ELSE LET assignee == normalizeName(S.issues[i].assignee_name) IN
       IF assignee = "" \/ MatchedAgents(S, assignee) = {} THEN S
       ELSE LET matchedAgent == CHOOSE a \in MatchedAgents(S, assignee) : TRUE
                S0 == Called(S, <<"assignTask", matchedAgent, LinearTaskId(i)>>)
                S1 == assignLinearTask(S0, matchedAgent, LinearTaskId(i), i)
            IN  [S1 EXCEPT !.threw = FALSE]

maybeAutoAssignIssue(S, i) ==
  IF S.threw THEN S
  ELSE IF ~HasIssue(S, i) \/ S.issues[i].agent_task_id # NULL THEN S
  ELSE IF ~isAutoAssignmentState(S.issues[i].state_type) THEN S
  ELSE LET assignee == normalizeName(S.issues[i].assignee_name) IN
       IF assignee = "" \/ MatchedAgents(S, assignee) = {} THEN S
       ELSE LET matchedAgent == CHOOSE a \in MatchedAgents(S, assignee) : TRUE
                S0 == Called(S, <<"assignTask", matchedAgent, LinearTaskId(i)>>)
                S1 == assignLinearTask(S0, matchedAgent, LinearTaskId(i), i)
            IN  [S1 EXCEPT !.threw = FALSE]

\* POST /api/linear/webhook; the answer's status is the returned value
postWebhook(S, payload, signature, secret) ==
  IF secret = NULL THEN Return(S, "500")
  ELSE IF signature = <<>> THEN Return(S, "401")
  ELSE IF ~verifyWebhookSignature(payload, signature, secret) THEN Return(S, "401")
  ELSE LET S1 == IF payload.type = "Issue"
                 THEN IF payload.action = "remove"
                      THEN publish(deleteLinearIssue(S, payload.id), "todo:updated")
                      ELSE maybeAutoAssignIssue(upsertIssueFromWebhook(S, payload), payload.id)
                 ELSE S
       IN  IF S1.threw THEN Return([S1 EXCEPT !.threw = FALSE], "500") ELSE Return(S1, "200")

-----------------------------------------------------------------------------
(* Alert Engine (lib/alerts/engine): the seeded rules, the index of        *)
(* scheduled timers keyed by (agentId, taskId, trigger, rule), the timers  *)
(* whose callback is queued but has not delivered yet, and the Messages    *)

Priorities == {"high", "medium", "low"}

Rules ==
  { [id |-> "blocked-high", trigger |-> "blocked", priority_filter |-> {"high"}, delay_ms |-> 0],
    [id |-> "blocked-medium", trigger |-> "blocked", priority_filter |-> {"medium"},
     delay_ms |-> 600000],
    [id |-> "blocked-low", trigger |-> "blocked", priority_filter |-> {"low"},
     delay_ms |-> 3600000],
    [id |-> "error-all", trigger |-> "error", priority_filter |-> Priorities, delay_ms |-> 0],
    [id |-> "completed-high", trigger |-> "completed", priority_filter |-> {"high"},
     delay_ms |-> 0],
    [id |-> "completed-batch", trigger |-> "completed", priority_filter |-> {"medium", "low"},
     delay_ms |-> 900000],
    [id |-> "idle-all", trigger |-> "idle_too_long", priority_filter |-> Priorities,
     delay_ms |-> 1800000],
    [id |-> "stale-all", trigger |-> "stale_task", priority_filter |-> Priorities,
     delay_ms |-> 7200000] }

MatchingRules(trigger, priority) ==
  {rule \in Rules : rule.trigger = trigger /\ priority \in rule.priority_filter}

Engine == [scheduled |-> scheduled, firing |-> firing, messages |-> messages]

AlertKey(e) == <<e.agentId, e.taskId, e.trigger, e.rule>>

\* the Message a delivery creates; raced tells that cancelPendingAlerts was
\* called for its key after its timer had fired
Message(e) ==
  [agentId |-> e.agentId, taskId |-> e.taskId, trigger |-> e.trigger, rule |-> e.rule,
   raced |-> e.raced]

\* a batch has one timer: an event joining an open batch window shares its time
DueTime(E, rule) ==
  IF rule.trigger = "completed" /\ (\E e \in E.scheduled : e.rule = rule.id)
  THEN (CHOOSE e \in E.scheduled : e.rule = rule.id).due
  ELSE now + rule.delay_ms

Schedule(E, event, rule) ==
  LET e == [agentId |-> event.agentId, taskId |-> event.taskId, trigger |-> event.trigger,
            rule |-> rule.id, due |-> DueTime(E, rule), raced |-> FALSE]
  IN  IF rule.delay_ms = 0
      THEN [E EXCEPT !.messages = @ \cup {Message(e)}]
      ELSE [E EXCEPT !.scheduled = {x \in @ : AlertKey(x) # AlertKey(e)} \cup {e}]

\* alertEngine.processEvent(event); the seeded rules match an event at most once
engineProcessEvent(E, event, priority) ==
  LET matching == MatchingRules(event.trigger, priority) IN
  IF matching = {} THEN E
  ELSE Schedule(E, event, CHOOSE rule \in matching : TRUE)

RECURSIVE engineProcessEvents(_, _, _)
engineProcessEvents(E, events, priority) ==
  IF events = <<>> THEN E
  ELSE engineProcessEvents(engineProcessEvent(E, Head(events), priority), Tail(events), priority)

Matches(e, a, t) == e.agentId = a /\ (t = NULL \/ e.taskId = t)

\* a cancellation that takes an absent taskId for a task id no alert has
cancelPendingAlertsExactTask(E, a, t) ==
  [E EXCEPT !.scheduled = {e \in @ : ~(e.agentId = a /\ e.taskId = t)},
            !.firing = {IF Matches(e, a, t) THEN [e EXCEPT !.raced = TRUE] ELSE e : e \in @}]

\* alertEngine.cancelPendingAlerts(agentId, taskId?): cancels the scheduled
\* timers of the key; a timer that has fired is not cancelled (Timer Service)
cancelPendingAlerts(E, a, t) ==
  [E EXCEPT !.scheduled = {e \in @ : ~Matches(e, a, t)},
            !.firing = {IF Matches(e, a, t) THEN [e EXCEPT !.raced = TRUE] ELSE e : e \in @}]

CancelledCount(E, a, t) == Cardinality({e \in E.scheduled : Matches(e, a, t)})

-----------------------------------------------------------------------------
(* Actions: one per operation. Each commits what the handler wrote, also   *)
(* when it threw part-way, and records the operation in last.              *)

Hours == 0..23
StartTimes == {1000}
Schedules ==
  { [startHour |-> 2, endHour |-> 6, enabled |-> FALSE],
    [startHour |-> 22, endHour |-> 6, enabled |-> TRUE] }
PatchStatuses == TaskStatuses \cup {"undefined"}
PatchReasons == {"undefined", "manual"}
BlockSources == {"explicit", "question"}

NoOp == [op |-> "init", agent |-> NULL, task |-> NULL, hour |-> NoTime, ret |-> "void", threw |-> FALSE,
         calls |-> <<>>, events |-> <<>>, alerts |-> <<>>]

\* the last webhook delivery: what was sent, the secret in force, the status
\* answered, and whether it repeated the accepted delivery just before it
NoRequest == [payload |-> NULL, signature |-> <<>>, secret |-> NULL, status |-> "none",
              replay |-> FALSE]

\* no stop request is suspended
NoStop == [active |-> FALSE, agent |-> NULL, remaining |-> {}, at |-> NoTime]

\* the call is one that restarts a's idle monitor: a refreshHeartbeat, an
\* assignTask that returned a task, a triggerWake of a sleeping agent
RestartsMonitor(S, op, a) ==
  /\ ~S.threw
  /\ \/ op \in {"refreshHeartbeat", "assignTask"}
     \/ op = "triggerWake" /\ a \in DOMAIN agents /\ agents[a].status = "sleeping"

\* the call is one that clears a's idle monitor: a completeTask of an existing
\* task, a triggerSleep of an agent that is neither sleeping nor offline
ClearsMonitor(S, op, a, t) ==
  /\ ~S.threw
  /\ \/ op = "completeTask" /\ t \in DOMAIN tasks
     \/ op = "triggerSleep" /\ a \in DOMAIN agents /\ agents[a].status \notin {"sleeping", "offline"}

Commit(S, op, a, t) ==
  /\ agents' = S.agents
  /\ tasks' = S.tasks
  /\ idleTimers' = S.idleTimers
  /\ timeouts' = S.timeouts
  /\ errorCounters' = S.errorCounters
  /\ messageThrottles' = S.messageThrottles
  /\ last' = [op |-> op, agent |-> a, task |-> t, hour |-> NoTime, ret |-> S.ret,
              threw |-> S.threw, calls |-> S.calls, events |-> S.events, alerts |-> S.alerts]
  /\ monitorLog' = IF RestartsMonitor(S, op, a) THEN (a :> now) @@ monitorLog
                   ELSE IF ClearsMonitor(S, op, a, t)
                        THEN [x \in DOMAIN monitorLog \ {a} |-> monitorLog[x]]
                        ELSE monitorLog
  /\ UNCHANGED <<now, sleepSchedule>>

\* isInSleepWindow() can return b at some wall-clock hour
SleepWindowAnswers == {InWindow(sleepSchedule, c) : c \in UNION {FormattedHours(h) : h \in Hours}}

Init ==
  /\ now \in StartTimes
  /\ agents = <<>>
  /\ tasks = <<>>
  /\ idleTimers = <<>>
  /\ timeouts = {}
  /\ monitorLog = <<>>
  /\ errorCounters = <<>>
  /\ messageThrottles = <<>>
  /\ sleepSchedule = [startHour |-> 2, endHour |-> 6, enabled |-> FALSE]
  /\ pushLog = [a \in AgentIds |-> <<>>]
  /\ errorLog = [key \in AgentIds \X TaskIds |-> <<>>]
  /\ last = NoOp
  /\ rateLimitBuckets = <<>>
  /\ allowLog = <<>>
  /\ issues = <<>>
  /\ request = NoRequest
  /\ scheduled = {}
  /\ firing = {}
  /\ messages = {}
  /\ stopping = NoStop
  /\ listeners = <<>>
  /\ received = <<>>

RegisterAgent(a) ==
  /\ Commit(registerAgent(Ctx, a), "registerAgent", a, NULL)
  /\ UNCHANGED <<pushLog, errorLog, edge, engine, conc>>

AssignTask(a, t) ==
  /\ Commit(assignTask(Ctx, a, t), "assignTask", a, t)
  /\ UNCHANGED <<pushLog, errorLog, edge, engine, conc>>

DetectBlocked(a, t, source) ==
  /\ Commit(detectBlocked(Ctx, a, source, t), "detectBlocked", a, t)
  /\ UNCHANGED <<pushLog, errorLog, edge, engine, conc>>

\* the latest n entries of a history, x added
Latest(log, x, n) ==
  LET all == Append(log, x)
  IN  IF Len(all) > n THEN SubSeq(all, Len(all) - n + 1, Len(all)) ELSE all

\* POST /api/agents/{id}/error {taskId}
errorRoute(S, a, t) ==
  IF ~HasAgent(S, a) THEN S
  ELSE IF ~HasTask(S, t) \/ S.tasks[t].agent_id # a THEN S
  ELSE recordError(S, a, t)

ReportError(a, t) ==
  /\ ErrorKey(a, t) \in DOMAIN errorCounters => errorCounters[ErrorKey(a, t)].count < MaxErrors
  /\ a \in DOMAIN agents /\ t \in DOMAIN tasks /\ tasks[t].agent_id = a
  /\ Commit(errorRoute(Ctx, a, t), "recordError", a, t)
  /\ errorLog' = [errorLog EXCEPT ![<<a, t>>] = Latest(@, now, SleepThreshold)]
  /\ UNCHANGED <<pushLog, edge, engine, conc>>

\* shouldSendMessage(a, type), called by the Alert Engine before a delivery
ShouldSendMessage(a, type) ==
  LET S == shouldSendMessage(Ctx, a, type) IN
  /\ Commit(S, "shouldSendMessage", a, NULL)
  /\ pushLog' = IF type = "push" /\ S.ret = "true"
                THEN [pushLog EXCEPT ![a] = Latest(@, now, ThrottleMax + 1)]
                ELSE pushLog
  /\ UNCHANGED <<errorLog, edge, engine, conc>>

\* isInSleepWindow() evaluated at wall-clock hour h of the schedule's time zone
EvalSleepWindow(h) ==
  \E currentHour \in FormattedHours(h) :
    /\ last' = [NoOp EXCEPT !.op = "isInSleepWindow", !.hour = h,
                            !.ret = IF InWindow(sleepSchedule, currentHour) THEN "true" ELSE "false"]
    /\ UNCHANGED <<conc, timeouts, monitorLog, now, agents, tasks, idleTimers, errorCounters, messageThrottles,
                   sleepSchedule, pushLog, errorLog, edge, engine>>

\* recordError(a, t) called on the Lifecycle Manager itself
RecordError(a, t) ==
  /\ ErrorKey(a, t) \in DOMAIN errorCounters => errorCounters[ErrorKey(a, t)].count < MaxErrors
  /\ Commit(recordError(Ctx, a, t), "recordError", a, t)
  /\ UNCHANGED <<pushLog, errorLog, edge, engine, conc>>

\* POST /api/agents/{id}/actions {action: 'stop'} up to its first await: with no
\* task in progress the handler runs to its end, otherwise it cancels the first
\* task of its list and is suspended in signalWorkflow while other requests run
StopBegin(a) ==
  /\ ~stopping.active
  /\ LET inProgressTasks == IF HasAgent(Ctx, a)
                            THEN {t \in getAgentTasks(Ctx, a) : tasks[t].status = "in_progress"}
                            ELSE {}
     IN  IF inProgressTasks = {}
         THEN /\ Commit(actionStop(Ctx, a), "adminStop", a, NULL)
              /\ stopping' = stopping
         ELSE \E t \in inProgressTasks :
                /\ Commit(stopCancel(Ctx, t, Seconds(now)), "adminStopAwait", a, t)
                /\ stopping' = [active |-> TRUE, agent |-> a,
                                remaining |-> inProgressTasks \ {t}, at |-> Seconds(now)]
  /\ UNCHANGED <<pushLog, errorLog, edge, engine, listeners, received>>

\* the suspended stop request resumes: the next task of its list up to the next
\* await, or the agent update and the response once the list is done
StopResume ==
  /\ stopping.active
  /\ IF stopping.remaining = {}
     THEN /\ Commit(stopFinish(Ctx, stopping.agent), "adminStop", stopping.agent, NULL)
          /\ stopping' = NoStop
     ELSE \E t \in stopping.remaining :
            /\ Commit(stopCancel(Ctx, t, stopping.at), "adminStopAwait", stopping.agent, t)
            /\ stopping' = [stopping EXCEPT !.remaining = @ \ {t}]
  /\ UNCHANGED <<pushLog, errorLog, edge, engine, listeners, received>>

\* the events listener id has been called with
ReceivedBy(log, id) == IF id \in DOMAIN log THEN log[id] ELSE <<>>

\* super.emit(event, data): the listeners are called one after the other, in
\* the order they were added, in the publisher's call; the first one that
\* throws ends the call, and its exception is the publisher's
RECURSIVE emit(_, _, _)
emit(ls, log, e) ==
  IF ls = <<>> THEN [received |-> log, threw |-> FALSE]
  ELSE LET id == Head(ls).id
           delivered == (id :> Append(ReceivedBy(log, id), e)) @@ log
       IN  IF Head(ls).fails THEN [received |-> delivered, threw |-> TRUE]
           ELSE emit(Tail(ls), delivered, e)

\* eventBus.on('dashboard-event', listener); fails tells whether the listener throws
Subscribe(id, fails) ==
  /\ \A i \in 1..Len(listeners) : listeners[i].id # id
  /\ listeners' = Append(listeners, [id |-> id, fails |-> fails])
  /\ last' = [NoOp EXCEPT !.op = "subscribe", !.agent = id]
  /\ UNCHANGED <<now, agents, tasks, idleTimers, timeouts, errorCounters, messageThrottles, sleepSchedule,
                 pushLog, errorLog, monitorLog, edge, engine, stopping, received>>

\* eventBus.off('dashboard-event', listener)
Unsubscribe(id) ==
  /\ \E i \in 1..Len(listeners) : listeners[i].id = id
  /\ listeners' = SelectSeq(listeners, LAMBDA l : l.id # id)
  /\ last' = [NoOp EXCEPT !.op = "unsubscribe", !.agent = id]
  /\ UNCHANGED <<now, agents, tasks, idleTimers, timeouts, errorCounters, messageThrottles, sleepSchedule,
                 pushLog, errorLog, monitorLog, edge, engine, stopping, received>>

\* eventBus.publish(e)
Publish(e) ==
  LET R == emit(listeners, received, e) IN
  /\ received' = R.received
  /\ last' = [NoOp EXCEPT !.op = "publish", !.events = <<e>>, !.threw = R.threw]
  /\ UNCHANGED <<now, agents, tasks, idleTimers, timeouts, errorCounters, messageThrottles, sleepSchedule,
                 pushLog, errorLog, monitorLog, edge, engine, stopping, listeners>>

\* the ways a call of alertEngine.processEvent can fail
AlertFailures == {"throws", "rejects"}

\* detectBlocked, completeTask and the idle check while the Alert Engine fails
DetectBlockedAlertsFailing(a, t, source, failure) ==
  /\ Commit(detectBlocked([Ctx EXCEPT !.alertsFail = failure], a, source, t), "detectBlocked", a, t)
  /\ UNCHANGED <<pushLog, errorLog, edge, engine, conc>>

CompleteTaskAlertsFailing(a, t, failure) ==
  /\ \E inWindow \in SleepWindowAnswers :
       Commit(completeTask([Ctx EXCEPT !.alertsFail = failure], a, t, inWindow), "completeTask", a, t)
  /\ UNCHANGED <<pushLog, errorLog, edge, engine, conc>>

IdleTimerFiresAlertsFailing(a, failure) ==
  /\ \E timer \in timeouts :
       /\ timer.agent = a
       /\ now >= timer.due
       /\ LET S == [Ctx EXCEPT !.timeouts = @ \ {timer}, !.alertsFail = failure]
              pending == PendingTasks(checkIdle(S, a, NULL), a)
          IN  \E firstPending \in (IF pending = {} THEN {NULL} ELSE pending) :
                Commit(checkIdle(S, a, firstPending), "checkIdle", a, NULL)
  /\ UNCHANGED <<pushLog, errorLog, edge, engine, conc>>

RefreshHeartbeat(a) ==
  /\ Commit(refreshHeartbeat(Ctx, a), "refreshHeartbeat", a, NULL)
  /\ UNCHANGED <<pushLog, errorLog, edge, engine, conc>>

TriggerSleep(a) ==
  /\ Commit(triggerSleep(Ctx, a), "triggerSleep", a, NULL)
  /\ UNCHANGED <<pushLog, errorLog, edge, engine, conc>>

TriggerWake(a) ==
  /\ Commit(triggerWake(Ctx, a), "triggerWake", a, NULL)
  /\ UNCHANGED <<pushLog, errorLog, edge, engine, conc>>

CompleteTask(a, t) ==
  \E inWindow \in SleepWindowAnswers :
    /\ Commit(completeTask(Ctx, a, t, inWindow), "completeTask", a, t)
    /\ UNCHANGED <<pushLog, errorLog, edge, engine, conc>>

\* the setTimeout callback of startIdleMonitor, run once its delay has passed
IdleTimerFires(a) ==
  /\ \E timer \in timeouts :
       /\ timer.agent = a
       /\ now >= timer.due
       /\ LET S == [Ctx EXCEPT !.timeouts = @ \ {timer}]
              pending == PendingTasks(checkIdle(S, a, NULL), a)
          IN  \E firstPending \in (IF pending = {} THEN {NULL} ELSE pending) :
                Commit(checkIdle(S, a, firstPending), "checkIdle", a, NULL)
  /\ UNCHANGED <<pushLog, errorLog, edge, engine, conc>>

SetSleepSchedule(schedule) ==
  /\ sleepSchedule' = schedule
  /\ last' = [NoOp EXCEPT !.op = "setSleepSchedule"]
  /\ UNCHANGED <<conc, timeouts, monitorLog, now, agents, tasks, idleTimers, errorCounters, messageThrottles, pushLog, errorLog, edge, engine>>

StartAgentTask(a, t) ==
  /\ Commit(startAgentTask(Ctx, a, t), "startAgentTask", a, t)
  /\ UNCHANGED <<pushLog, errorLog, edge, engine, conc>>

UpdateDashboard(a, agentStatus, t, taskStatus) ==
  \E inWindow \in SleepWindowAnswers :
    /\ Commit(updateDashboard(Ctx, a, agentStatus, t, taskStatus, inWindow), "updateDashboard", a, t)
    /\ UNCHANGED <<pushLog, errorLog, edge, engine, conc>>

CreateTask(a, t, taskStatus) ==
  /\ Commit(createTaskRoute(Ctx, a, t, taskStatus), "createTask", a, t)
  /\ UNCHANGED <<pushLog, errorLog, edge, engine, conc>>

PatchTask(a, t, dataStatus, dataReason) ==
  /\ Commit(patchTaskRoute(Ctx, a, t, dataStatus, dataReason), "patchTask", a, t)
  /\ UNCHANGED <<pushLog, errorLog, edge, engine, conc>>

AdminSleep(a) ==
  /\ Commit(actionSleep(Ctx, a), "adminSleep", a, NULL)
  /\ UNCHANGED <<pushLog, errorLog, edge, engine, conc>>

AdminStop(a) ==
  /\ Commit(actionStop(Ctx, a), "adminStop", a, NULL)
  /\ UNCHANGED <<pushLog, errorLog, edge, engine, conc>>

AdminUnblock(a) ==
  \E blockedTask \in BlockedChoices(a) :
    /\ Commit(actionUnblock(Ctx, a, blockedTask), "adminUnblock", a, blockedTask)
    /\ UNCHANGED <<pushLog, errorLog, edge, engine, conc>>

AdminRestart(a) ==
  /\ Commit(actionRestart(Ctx, a), "adminRestart", a, NULL)
  /\ UNCHANGED <<pushLog, errorLog, edge, engine, conc>>

\* time passes
PatchAgent(a, dataStatus, dataCurrent) ==
  /\ Commit(patchAgentRoute(Ctx, a, dataStatus, dataCurrent), "patchAgent", a, NULL)
  /\ UNCHANGED <<pushLog, errorLog, edge, engine, conc>>

DeleteAgent(a) ==
  /\ Commit(deleteAgentRoute(Ctx, a), "deleteAgent", a, NULL)
  /\ UNCHANGED <<pushLog, errorLog, edge, engine, conc>>

\* a write request from client ip reaches checkRateLimit
CheckRateLimit(ip) ==
  LET R == checkRateLimit(rateLimitBuckets, ip) IN
  /\ rateLimitBuckets' = R.buckets
  /\ allowLog' = IF R.allowed
                 THEN (ip :> Latest(Bucket(allowLog, ip), now, RateLimitMaxRequests + 1)) @@ allowLog
                 ELSE allowLog
  /\ last' = [NoOp EXCEPT !.op = "checkRateLimit", !.agent = ip,
                          !.ret = IF R.allowed THEN "true" ELSE "false"]
  /\ UNCHANGED <<conc, timeouts, monitorLog, now, agents, tasks, idleTimers, errorCounters, messageThrottles, sleepSchedule,
                 pushLog, errorLog, issues, request, engine>>

Webhook(payload, signature, secret) ==
  LET S == postWebhook(Ctx, payload, signature, secret) IN
  /\ Commit(S, "webhook", NULL, NULL)
  /\ issues' = S.issues
  /\ request' = [payload |-> payload, signature |-> signature, secret |-> secret,
                 status |-> S.ret,
                 replay |-> /\ last.op = "webhook"
                            /\ request.status = "200"
                            /\ request.payload = payload
                            /\ request.signature = signature
                            /\ request.secret = secret]
  /\ UNCHANGED <<pushLog, errorLog, rateLimitBuckets, allowLog, engine, conc>>

CommitEngine(E) ==
  /\ scheduled' = E.scheduled
  /\ firing' = E.firing
  /\ messages' = E.messages

\* detectBlocked with the Alert Engine's processing of the event it hands over
DetectBlockedAlert(a, t, source, priority) ==
  LET S == detectBlocked(Ctx, a, source, t) IN
  /\ Commit(S, "detectBlocked", a, t)
  /\ CommitEngine(engineProcessEvents(Engine, S.alerts, priority))
  /\ UNCHANGED <<pushLog, errorLog, edge, conc>>

\* completeTask with the Alert Engine's processing of the event it hands over
CompleteTaskAlert(a, t, priority) ==
  \E inWindow \in SleepWindowAnswers :
    LET S == completeTask(Ctx, a, t, inWindow) IN
    /\ Commit(S, "completeTask", a, t)
    /\ CommitEngine(engineProcessEvents(Engine, S.alerts, priority))
    /\ UNCHANGED <<pushLog, errorLog, edge, conc>>

CancelAlertsExactTask(a, t) ==
  /\ CommitEngine(cancelPendingAlertsExactTask(Engine, a, t))
  /\ last' = [NoOp EXCEPT !.op = "cancelAlerts", !.agent = a, !.task = t,
                          !.ret = ToString(CancelledCount(Engine, a, t))]
  /\ UNCHANGED <<conc, timeouts, monitorLog, now, agents, tasks, idleTimers, errorCounters, messageThrottles, sleepSchedule,
                 pushLog, errorLog, edge>>

\* the activity cancelAlerts(agentId, taskId?)
CancelAlerts(a, t) ==
  /\ CommitEngine(cancelPendingAlerts(Engine, a, t))
  /\ last' = [NoOp EXCEPT !.op = "cancelAlerts", !.agent = a, !.task = t,
                          !.ret = ToString(CancelledCount(Engine, a, t))]
  /\ UNCHANGED <<conc, timeouts, monitorLog, now, agents, tasks, idleTimers, errorCounters, messageThrottles, sleepSchedule,
                 pushLog, errorLog, edge>>

\* the timer of a scheduled alert fires: its callback is queued
AlertTimerFires(e) ==
  /\ e \in scheduled
  /\ now >= e.due
  /\ scheduled' = scheduled \ {e}
  /\ firing' = firing \cup {e}
  /\ UNCHANGED <<conc, timeouts, monitorLog, now, agents, tasks, idleTimers, errorCounters, messageThrottles, sleepSchedule,
                 pushLog, errorLog, last, edge, messages>>

\* the queued callback runs: a Message is created and message:created published
Deliver(e) ==
  /\ e \in firing
  /\ firing' = firing \ {e}
  /\ messages' = messages \cup {Message(e)}
  /\ UNCHANGED <<conc, timeouts, monitorLog, now, agents, tasks, idleTimers, errorCounters, messageThrottles, sleepSchedule,
                 pushLog, errorLog, last, edge, scheduled>>

Advance(step) ==
  /\ now' = now + step
  /\ UNCHANGED <<conc, timeouts, monitorLog, agents, tasks, idleTimers, errorCounters, messageThrottles, sleepSchedule,
                 pushLog, errorLog, last, edge, engine>>

-----------------------------------------------------------------------------
(* Spec: the Lifecycle Manager's methods, task creation and the admin      *)
(* actions on one agent with two tasks, at one instant.                    *)

Next ==
  \/ RegisterAgent("a1")
  \/ \E t \in TaskIds : AssignTask("a1", t)
  \/ \E t \in TaskIds, source \in BlockSources : DetectBlocked("a1", t, source)
  \/ RefreshHeartbeat("a1")
  \/ TriggerSleep("a1")
  \/ TriggerWake("a1")
  \/ \E t \in TaskIds : CompleteTask("a1", t)
  \/ \E schedule \in Schedules : SetSleepSchedule(schedule)
  \/ \E t \in TaskIds, taskStatus \in TaskStatuses : CreateTask("a1", t, taskStatus)
  \/ AdminSleep("a1")
  \/ AdminStop("a1")
  \/ AdminUnblock("a1")
  \/ AdminRestart("a1")

Spec == Init /\ [][Next]_vars

(* SpecTasks: every writer of one task row: the lifecycle methods, the     *)
(* Temporal activities, the task PATCH and the admin actions.              *)

NextTasks ==
  \/ RegisterAgent("a1")
  \/ AssignTask("a1", "t1")
  \/ \E source \in BlockSources : DetectBlocked("a1", "t1", source)
  \/ TriggerSleep("a1")
  \/ TriggerWake("a1")
  \/ CompleteTask("a1", "t1")
  \/ \E schedule \in Schedules : SetSleepSchedule(schedule)
  \/ StartAgentTask("a1", "t1")
  \/ \E agentStatus \in AgentStatuses, taskStatus \in PatchStatuses :
       UpdateDashboard("a1", agentStatus, "t1", taskStatus)
  \/ \E taskStatus \in TaskStatuses : CreateTask("a1", "t1", taskStatus)
  \/ \E dataStatus \in PatchStatuses, dataReason \in PatchReasons :
       PatchTask("a1", "t1", dataStatus, dataReason)
  \/ AdminSleep("a1")
  \/ AdminStop("a1")
  \/ AdminUnblock("a1")
  \/ AdminRestart("a1")

SpecTasks == Init /\ [][NextTasks]_vars

(* SpecErr: error reports for one task while time passes *)

ErrTick == \E step \in {300000, 300001} : now + step <= MaxNowErr /\ Advance(step)

NextErr ==
  \/ RegisterAgent("a1")
  \/ AssignTask("a1", "t1")
  \/ ReportError("a1", "t1")
  \/ ErrTick

SpecErr == Init /\ [][NextErr]_vars

(* SpecThrottle: push throttle decisions while time passes *)

PushTick == \E step \in {1800000, 1800001} : now + step <= MaxNowPush /\ Advance(step)

NextThrottle ==
  \/ \E a \in AgentIds, type \in {"push", "in_app"} : ShouldSendMessage(a, type)
  \/ PushTick

SpecThrottle == Init /\ [][NextThrottle]_vars

(* SpecSleep: the sleep window under every schedule the settings route accepts *)

BoundaryHours == {0, 1, 6, 22, 23}

RouteSchedules ==
  [startHour : BoundaryHours, endHour : BoundaryHours, enabled : BOOLEAN]

NextSleep ==
  \/ \E schedule \in RouteSchedules : SetSleepSchedule(schedule)
  \/ \E h \in Hours : EvalSleepWindow(h)

SpecSleep == Init /\ [][NextSleep]_vars

(* SpecIdle: one assignment at the start, then nothing but the clock and   *)
(* the idle timer                                                          *)

IdleTick == \E step \in {1000, IdleTimeoutMs} : now + step <= MaxNowIdle /\ Advance(step)

NextIdle ==
  \/ RegisterAgent("a1")
  \/ (now \in StartTimes /\ AssignTask("a1", "t1"))
  \/ IdleTimerFires("a1")
  \/ IdleTick

SpecIdle == Init /\ [][NextIdle]_vars /\ WF_vars(IdleTimerFires("a1")) /\ WF_vars(IdleTick)

(* SpecMonitor: the idle monitor of two agents while heartbeats, an        *)
(* assignment, sleep, wake, completion and an admin stop arrive and time   *)
(* passes                                                                  *)

MaxNowMonitor == 600000

MonitorTick == \E step \in {299999, IdleTimeoutMs} : now + step <= MaxNowMonitor /\ Advance(step)

NextMonitor ==
  \/ \E a \in AgentIds : RegisterAgent(a)
  \/ AssignTask("a1", "t1")
  \/ \E a \in AgentIds : RefreshHeartbeat(a)
  \/ TriggerSleep("a1")
  \/ TriggerWake("a1")
  \/ \E a \in AgentIds : CompleteTask(a, "t1")
  \/ AdminStop("a1")
  \/ \E a \in AgentIds : IdleTimerFires(a)
  \/ MonitorTick

SpecMonitor == Init /\ [][NextMonitor]_vars

(* SpecKeys: error reports and push decisions for ids that are opaque      *)
(* strings, some of which hold the separator of the counter key            *)

KeyAgentIds == {"a", "a:b"}
KeyTaskIds == {"c", "b:c"}

MaxNowKeys == 602000
MaxKeyErrors == 3

KeyTick == now + ErrorWindowMs + 1 <= MaxNowKeys /\ Advance(ErrorWindowMs + 1)

NextKeys ==
  \/ \E a \in KeyAgentIds, t \in KeyTaskIds :
       /\ ErrorKey(a, t) \in DOMAIN errorCounters => errorCounters[ErrorKey(a, t)].count < MaxKeyErrors
       /\ RecordError(a, t)
  \/ \E a \in AgentIds : ShouldSendMessage(a, "push")
  \/ KeyTick

SpecKeys == Init /\ [][NextKeys]_vars

(* SpecAlertsFail: blocking, completion and the idle check of one agent     *)
(* with two tasks while calls of the Alert Engine fail                     *)

MaxNowAlertsFail == 601000

AlertsFailTick == now + IdleTimeoutMs <= MaxNowAlertsFail /\ Advance(IdleTimeoutMs)

NextAlertsFail ==
  \/ RegisterAgent("a1")
  \/ \E t \in TaskIds : AssignTask("a1", t)
  \/ \E t \in TaskIds, failure \in AlertFailures :
       DetectBlockedAlertsFailing("a1", t, "explicit", failure)
  \/ \E t \in TaskIds, failure \in AlertFailures : CompleteTaskAlertsFailing("a1", t, failure)
  \/ \E failure \in AlertFailures : IdleTimerFiresAlertsFailing("a1", failure)
  \/ AlertsFailTick

SpecAlertsFail == Init /\ [][NextAlertsFail]_vars

(* SpecIdleLong: one assignment at the start, then nothing but            *)
(* the clock and the idle timer, for longer than the idle_too_long limit   *)

MaxNowIdleLong == 2101000

IdleLongTick ==
  \E step \in {IdleTimeoutMs, IdleTimeoutMs + 1000, 5 * IdleTimeoutMs} :
    now + step <= MaxNowIdleLong /\ Advance(step)

NextIdleLong ==
  \/ RegisterAgent("a1")
  \/ (now \in StartTimes /\ AssignTask("a1", "t1"))
  \/ IdleTimerFires("a1")
  \/ IdleLongTick

SpecIdleLong ==
  Init /\ [][NextIdleLong]_vars /\ WF_vars(IdleTimerFires("a1")) /\ WF_vars(IdleLongTick)

(* SpecBus: the event bus with listeners that come and go, some of which   *)
(* throw                                                                   *)

ListenerIds == {"l1", "l2", "l3"}
BusEvents == {"e1", "e2"}
MaxReceived == 2

NextBus ==
  \/ \E id \in ListenerIds, fails \in BOOLEAN : Subscribe(id, fails)
  \/ \E id \in ListenerIds : Unsubscribe(id)
  \/ \E e \in BusEvents :
       /\ \A i \in 1..Len(listeners) : Len(ReceivedBy(received, listeners[i].id)) < MaxReceived
       /\ Publish(e)

SpecBus == Init /\ [][NextBus]_vars

(* SpecStop: an admin stop of one agent with two tasks, suspended in its    *)
(* awaits while assignments, task PATCHes, heartbeats and completions of   *)
(* the same agent are served                                               *)

NextStop ==
  \/ RegisterAgent("a1")
  \/ \E t \in TaskIds : AssignTask("a1", t)
  \/ \E t \in TaskIds : PatchTask("a1", t, "in_progress", "undefined")
  \/ RefreshHeartbeat("a1")
  \/ \E t \in TaskIds : CompleteTask("a1", t)
  \/ StopBegin("a1")
  \/ StopResume

SpecStop == Init /\ [][NextStop]_vars

(* SpecAgents: two agents and one task under assignment, blocking,         *)
(* completion, the workflow's dashboard update, agent PATCH and DELETE     *)

PatchAgentStatuses == {"idle", "working", "undefined"}
PatchAgentTasks == {"t1", NULL, "undefined"}

NextAgents ==
  \/ \E a \in AgentIds : RegisterAgent(a)
  \/ \E a \in AgentIds : AssignTask(a, "t1")
  \/ \E a \in AgentIds : DetectBlocked(a, "t1", "explicit")
  \/ \E a \in AgentIds : CompleteTask(a, "t1")
  \/ \E a \in AgentIds, taskStatus \in {"blocked", "completed", "undefined"} :
       UpdateDashboard(a, "idle", "t1", taskStatus)
  \/ \E a \in AgentIds, dataStatus \in PatchAgentStatuses, dataCurrent \in PatchAgentTasks :
       PatchAgent(a, dataStatus, dataCurrent)
  \/ \E a \in AgentIds : DeleteAgent(a)

SpecAgents == Init /\ [][NextAgents]_vars

(* SpecStarted: the ways into in_progress for one task while seconds pass *)

MaxNowStarted == 3000

StartedTick == now + 1000 <= MaxNowStarted /\ Advance(1000)

NextStarted ==
  \/ RegisterAgent("a1")
  \/ AssignTask("a1", "t1")
  \/ StartAgentTask("a1", "t1")
  \/ DetectBlocked("a1", "t1", "explicit")
  \/ AdminUnblock("a1")
  \/ \E dataStatus \in {"in_progress", "blocked", "pending"} :
       PatchTask("a1", "t1", dataStatus, "undefined")
  \/ \E taskStatus \in {"in_progress", "cancelled"} :
       UpdateDashboard("a1", "working", "t1", taskStatus)
  \/ StartedTick

SpecStarted == Init /\ [][NextStarted]_vars

(* SpecRate: requests of two clients at the rate limiter while time passes *)

ClientIps == {"10.0.0.1", "10.0.0.2"}

RateTick ==
  \E step \in {RateLimitWindowMs - 1, RateLimitWindowMs} :
    now + step <= MaxNowRate /\ Advance(step)

NextRate ==
  \/ \E ip \in ClientIps : CheckRateLimit(ip)
  \/ RateTick

SpecRate == Init /\ [][NextRate]_vars

(* SpecWebhook: deliveries to the webhook for one issue, signed or not,    *)
(* with one agent that can be registered and can complete the issue's task *)

MaxNowWebhook == 2000
IssueIds == {"I1"}
Secrets == {NULL, "s1"}
Payloads ==
  [type : {"Issue"}, action : {"create", "remove"}, id : IssueIds,
   state_type : {NULL, "started"}, assignee_name : {NULL, "A1 "}]
  \cup {[type |-> "Cycle", action |-> "create", id |-> "I1", state_type |-> NULL,
         assignee_name |-> NULL]}

\* what a sender can put in the linear-signature header for a payload
Signatures(payload) ==
  {<<>>, Hmac(payload, "s1"), UpperHex(Hmac(payload, "s1")), Hmac(payload, "s2"),
   Hmac([payload EXCEPT !.action = "update"], "s1")}

WebhookTick == now + 1000 <= MaxNowWebhook /\ Advance(1000)

NextWebhook ==
  \/ RegisterAgent("a1")
  \/ \E payload \in Payloads, secret \in Secrets :
        \E signature \in Signatures(payload) : Webhook(payload, signature, secret)
  \/ CompleteTask("a1", LinearTaskId("I1"))
  \/ WebhookTick

SpecWebhook == Init /\ [][NextWebhook]_vars

(* SpecAlerts: one agent and one task that is blocked and completed, the   *)
(* Alert Engine's timers, and calls of cancelAlerts                        *)

MaxNowAlerts == 901000
AlertPriorities == {"high", "medium"}

AlertTick == now + 300000 <= MaxNowAlerts /\ Advance(300000)

NextAlerts ==
  \/ RegisterAgent("a1")
  \/ AssignTask("a1", "t1")
  \/ \E priority \in AlertPriorities : DetectBlockedAlert("a1", "t1", "explicit", priority)
  \/ \E priority \in AlertPriorities : CompleteTaskAlert("a1", "t1", priority)
  \/ \E t \in {"t1", NULL} : CancelAlerts("a1", t)
  \/ \E e \in scheduled : AlertTimerFires(e)
  \/ \E e \in firing : Deliver(e)
  \/ AlertTick

SpecAlerts == Init /\ [][NextAlerts]_vars

-----------------------------------------------------------------------------
(* Properties *)

LiveStatuses == {"pending", "in_progress", "blocked"}

\* C1: in every reachable state, an agent whose status is working has a
\* non-null current_task_id, and that task is pending, in_progress or blocked.
WorkingAgentHasLiveTask ==
  \A a \in DOMAIN agents :
    agents[a].status = "working" =>
      /\ agents[a].current_task_id # NULL
      /\ agents[a].current_task_id \in DOMAIN tasks
      /\ tasks[agents[a].current_task_id].status \in LiveStatuses

\* C2: a task whose status is completed or cancelled keeps that status in
\* every step, whichever operation runs.
TerminalStatusFrozen ==
  [][\A t \in DOMAIN tasks :
       tasks[t].status \in Terminal =>
         t \in DOMAIN tasks' /\ tasks'[t].status = tasks[t].status]_vars

\* C3: in every reachable state, a task's blocked_reason and blocked_at are
\* non-null exactly when its status is blocked.
BlockedFieldsIffBlocked ==
  \A t \in DOMAIN tasks :
    (tasks[t].blocked_reason # NULL /\ tasks[t].blocked_at # NoTime) <=> tasks[t].status = "blocked"

\* C4: when completeTask(a, t) has returned, t is completed and a is idle or
\* sleeping or has another task that is pending, whatever a's status was before
\* and whether or not the sleep window is active.
CompleteTaskSettlesAgent ==
  (last.op = "completeTask" /\ ~last.threw /\ last.agent \in DOMAIN agents
     /\ last.task \in DOMAIN tasks) =>
    /\ tasks[last.task].status = "completed"
    /\ \/ agents[last.agent].status \in {"idle", "sleeping"}
       \/ \E t \in DOMAIN tasks \ {last.task} :
            tasks[t].agent_id = last.agent /\ tasks[t].status = "pending"

\* C5: when the latest five recordError calls for one (agent, task) lie within
\* 600 seconds of each other, the agent is sleeping after the fifth of them
\* (no triggerWake runs in SpecErr), wherever windowStart lies.
FiveErrorsWithinWindowSleep ==
  \A key \in DOMAIN errorLog :
    (/\ last.op = "recordError" /\ <<last.agent, last.task>> = key
     /\ Len(errorLog[key]) = SleepThreshold
     /\ errorLog[key][SleepThreshold] - errorLog[key][1] <= ErrorWindowMs)
    => (key[1] \in DOMAIN agents /\ agents[key[1]].status = "sleeping")

\* C6: for every agent, no four shouldSendMessage(a, 'push') calls that returned
\* true lie within one interval of 3,600,000 ms: the fourth latest allowed push
\* is more than the throttle window older than the latest.
AtMostThreePushesPerWindow ==
  \A a \in AgentIds :
    Len(pushLog[a]) = ThrottleMax + 1 =>
      pushLog[a][ThrottleMax + 1] - pushLog[a][1] > ThrottleWindowMs

\* C6 witness: an agent with four allowed pushes on record whose window is full
\* again and whose latest push request was refused.
PushRefusedAfterFourSends ==
  /\ last.op = "shouldSendMessage" /\ last.ret = "false"
  /\ Len(pushLog[last.agent]) = ThrottleMax + 1
  /\ messageThrottles[last.agent].count = ThrottleMax

\* the position of the latest recordError call in its error window
ErrorOrdinal == errorCounters[ErrorKey(last.agent, last.task)].count

\* C7 (as stated): within one error window recordError returns true on the
\* third and on the fifth call and false on every other call.
RecordErrorTrueOnThirdAndFifthOnly ==
  (last.op = "recordError" /\ ~last.threw) =>
    (last.ret = "true" <=> ErrorOrdinal \in {BlockThreshold, SleepThreshold})

\* C7 (amended): within one error window recordError returns false on the first
\* and the second call and true on the third and on every later call; from the
\* third call on it calls detectBlocked(repeated_errors), from the fifth on
\* triggerSleep too.
RecordErrorTrueFromThird ==
  (last.op = "recordError" /\ ~last.threw) =>
    /\ last.ret = (IF ErrorOrdinal >= BlockThreshold THEN "true" ELSE "false")
    /\ last.calls =
         (IF ErrorOrdinal >= SleepThreshold
          THEN << <<"detectBlocked", "repeated_errors", last.task>>, <<"triggerSleep">> >>
          ELSE IF ErrorOrdinal >= BlockThreshold
          THEN << <<"detectBlocked", "repeated_errors", last.task>> >>
          ELSE << >>)

\* C7 witness: the fourth and the sixth error of a window were answered true
FourthErrorReturnsTrue ==
  /\ last.op = "recordError" /\ ~last.threw /\ last.ret = "true"
  /\ ErrorOrdinal = BlockThreshold + 1

\* the agent is working on a task and its heartbeat is more than 300 s old
IdleTooLong(a) ==
  /\ a \in DOMAIN agents
  /\ agents[a].status = "working"
  /\ agents[a].current_task_id # NULL
  /\ agents[a].last_heartbeat # NoTime
  /\ Seconds(now) - agents[a].last_heartbeat > IdleBlockSeconds

\* the idle monitor has blocked the agent and its task
BlockedByIdleMonitor(a) ==
  /\ a \in DOMAIN agents
  /\ agents[a].status = "blocked"
  /\ agents[a].current_task_id \in DOMAIN tasks
  /\ tasks[agents[a].current_task_id].status = "blocked"
  /\ tasks[agents[a].current_task_id].blocked_reason = "idle"

\* C8: an agent that is working on a task and gets no heartbeat, assignment,
\* completion or sleep (SpecIdle has none after the assignment) is, once its
\* heartbeat is more than 300 s old, eventually blocked by the idle monitor
\* together with its task.
IdleAgentEventuallyBlocked ==
  IdleTooLong("a1") ~> BlockedByIdleMonitor("a1")

\* the hours of [startHour, endHour), wrapping past midnight when startHour >= endHour
WindowHours(sched) ==
  IF sched.startHour < sched.endHour
  THEN sched.startHour .. (sched.endHour - 1)
  ELSE (sched.startHour .. 23) \cup (0 .. (sched.endHour - 1))

\* C9: for every schedule and every hour h in 0..23, isInSleepWindow() returns
\* true exactly when the schedule is enabled and h lies in [startHour, endHour),
\* wrapping past midnight when startHour >= endHour.
SleepWindowMatchesSchedule ==
  last.op = "isInSleepWindow" =>
    (last.ret = "true" <=> (sleepSchedule.enabled /\ last.hour \in WindowHours(sleepSchedule)))

\* C10: in every step, a task whose status becomes blocked was in_progress
\* before; a pending, completed or cancelled task is not turned into blocked.
BlockedOnlyFromInProgress ==
  [][\A t \in DOMAIN tasks :
       (tasks[t].status # "blocked" /\ t \in DOMAIN tasks' /\ tasks'[t].status = "blocked")
         => tasks[t].status = "in_progress"]_vars

\* C11: in every reachable state, an agent's non-null current_task_id names an
\* existing task whose agent_id is that agent.
CurrentTaskOwned ==
  \A a \in DOMAIN agents :
    agents[a].current_task_id # NULL =>
      /\ agents[a].current_task_id \in DOMAIN tasks
      /\ tasks[agents[a].current_task_id].agent_id = a

\* C12: in every step, a task that enters in_progress for the first time has
\* its started_at set, and a started_at that is set never changes afterwards.
StartedAtSetOnceOnFirstStart ==
  [][\A t \in DOMAIN tasks \cap DOMAIN tasks' :
       /\ (tasks[t].status # "in_progress" /\ tasks'[t].status = "in_progress")
            => tasks'[t].started_at # NoTime
       /\ tasks[t].started_at # NoTime => tasks'[t].started_at = tasks[t].started_at]_vars

\* C13: in every reachable state, a task's completed_at is non-null exactly
\* when its status is completed or cancelled.
CompletedAtIffTerminal ==
  \A t \in DOMAIN tasks :
    tasks[t].completed_at # NoTime <=> tasks[t].status \in Terminal

\* the PATCH of task t of agent a is served (both rows exist, the task is a's)
PatchServed(a, t) ==
  a \in DOMAIN agents /\ t \in DOMAIN tasks /\ tasks[t].agent_id = a

\* C14: a task PATCH with status completed leaves the agent's status and
\* current_task_id, the idle timers and the alert events as completeTask would
\* from the same state (for the answer isInSleepWindow() gives), and a PATCH
\* with status blocked leaves task, agent and alert events as detectBlocked would.
PatchMatchesLifecycle ==
  [][\A a \in AgentIds, t \in TaskIds, dataReason \in PatchReasons :
       /\ (PatchServed(a, t) /\ PatchTask(a, t, "completed", dataReason)) =>
            \E inWindow \in SleepWindowAnswers :
              LET S == completeTask(Ctx, a, t, inWindow) IN
              /\ agents'[a].status = S.agents[a].status
              /\ agents'[a].current_task_id = S.agents[a].current_task_id
              /\ idleTimers' = S.idleTimers
              /\ last'.alerts = S.alerts
       /\ (PatchServed(a, t) /\ PatchTask(a, t, "blocked", dataReason)) =>
            LET S == detectBlocked(Ctx, a, "explicit", t) IN
            /\ tasks'[t].status = S.tasks[t].status
            /\ tasks'[t].blocked_at = S.tasks[t].blocked_at
            /\ agents'[a] = S.agents[a]
            /\ last'.alerts = S.alerts]_vars

\* the timestamps a sequence holds
Range(seq) == {seq[i] : i \in 1..Len(seq)}

\* C15: for every client IP, no RATE_LIMIT_MAX_REQUESTS + 1 allowed requests lie
\* within one window of RATE_LIMIT_WINDOW_MS milliseconds (the latest is at
\* least a window later than the one RATE_LIMIT_MAX_REQUESTS before it); the
\* bucket of an IP holds allowed requests only, so a denied request does not
\* count; and a request of one IP leaves the bucket of every other IP as it was.
RateLimitHolds ==
  /\ [](\A ip \in DOMAIN rateLimitBuckets :
          /\ Len(Bucket(allowLog, ip)) = RateLimitMaxRequests + 1 =>
               allowLog[ip][RateLimitMaxRequests + 1] - allowLog[ip][1] >= RateLimitWindowMs
          /\ Len(rateLimitBuckets[ip]) <= RateLimitMaxRequests
          /\ Range(rateLimitBuckets[ip]) \subseteq Range(Bucket(allowLog, ip)))
  /\ [][\A ip \in DOMAIN rateLimitBuckets :
          (last'.op = "checkRateLimit" /\ last'.agent # ip) =>
            rateLimitBuckets'[ip] = rateLimitBuckets[ip]]_vars

\* C15 witness: a client with a full window was denied after an earlier window
\* of allowed requests, while the other client has requests on record
RateLimitedAfterFullWindow ==
  /\ last.op = "checkRateLimit" /\ last.ret = "false"
  /\ Len(Bucket(allowLog, last.agent)) = RateLimitMaxRequests + 1
  /\ allowLog[last.agent][1] < allowLog[last.agent][RateLimitMaxRequests + 1]
  /\ \E ip \in DOMAIN rateLimitBuckets : ip # last.agent /\ rateLimitBuckets[ip] # <<>>

\* the step serves a webhook delivery, which request' then describes
WebhookServed == last'.op = "webhook" /\ now' = now

\* the header is absent or is not the digest of the body under the secret
Unsigned(delivery) ==
  \/ delivery.signature = <<>>
  \/ delivery.signature # Hmac(delivery.payload, delivery.secret)

\* the delivery wrote no row, armed no timer, called nothing and published nothing
DeliveryWithoutEffect ==
  /\ UNCHANGED <<agents, tasks, idleTimers, issues>>
  /\ last'.calls = <<>>
  /\ last'.events = <<>>

\* C16 as stated: every delivery whose signature is absent or is not the
\* lowercase-hex HMAC-SHA256 of the body under LINEAR_WEBHOOK_SECRET is answered
\* 401 and has no effect.
UnsignedWebhookAnswered401 ==
  [][(WebhookServed /\ Unsigned(request'))
         => (request'.status = "401" /\ DeliveryWithoutEffect)]_vars

\* C16 amended: such a delivery is answered 401 when LINEAR_WEBHOOK_SECRET is
\* set and 500 when it is not set; in both cases it mutates no Store row, does
\* not call assignTask and publishes no bus event.
UnsignedWebhookRejected ==
  [][(WebhookServed /\ Unsigned(request'))
         => /\ request'.status = (IF request'.secret = NULL THEN "500" ELSE "401")
            /\ DeliveryWithoutEffect]_vars

\* C16 witness: with the secret set and the issue already mirrored, a delivery
\* signed with the upper-case digest of its body has been answered 401
UpperCaseSignatureRejected ==
  /\ request.status = "401"
  /\ request.signature = UpperHex(Hmac(request.payload, request.secret))
  /\ "I1" \in DOMAIN issues

\* the delivery repeats the accepted Issue delivery served just before it
Replayed ==
  /\ WebhookServed
  /\ last.op = "webhook"
  /\ request.status = "200"
  /\ request'.payload = request.payload
  /\ request'.signature = request.signature
  /\ request'.secret = request.secret
  /\ request.payload.type = "Issue"

CallsAssignTask(calls) == \E k \in 1..Len(calls) : calls[k][1] = "assignTask"

\* C17 as stated: the second of two identical signed Issue deliveries leaves
\* the mirror row, the agent and its tasks as the first left them and does not
\* call assignTask.
ReplayChangesNothing ==
  [][Replayed
         => /\ UNCHANGED <<issues, agents, tasks>>
            /\ ~CallsAssignTask(last'.calls)]_vars

\* C17 amended: the second delivery leaves the agents, the tasks and the idle
\* timers as they were and the mirror row too except for synced_at, which it
\* sets to its own time; it publishes todo:updated again; it does not call
\* assignTask when the issue's agent_task_id is set.
ReplayRefreshesSyncedAtOnly ==
  [][Replayed
         => /\ UNCHANGED <<agents, tasks, idleTimers>>
            /\ DOMAIN issues' = DOMAIN issues
            /\ \A i \in DOMAIN issues :
                 issues'[i] = [issues[i] EXCEPT !.synced_at = Seconds(now)]
            /\ last'.events = <<"todo:updated">>
            /\ (\A i \in DOMAIN issues : issues[i].agent_task_id # NULL)
                 => ~CallsAssignTask(last'.calls)]_vars

\* C17 witness: the issue was auto-assigned and linked by one delivery, and the
\* same delivery has been served again at a later second
ReplayedAfterAutoAssign ==
  /\ request.replay
  /\ request.payload.action = "create"
  /\ "I1" \in DOMAIN issues /\ "a1" \in DOMAIN agents
  /\ issues["I1"].agent_task_id = LinearTaskId("I1")
  /\ LinearTaskId("I1") \in DOMAIN tasks
  /\ issues["I1"].synced_at > agents["a1"].last_heartbeat

\* cancelPendingAlerts(a, t) was the last operation and the step is not an
\* operation: since the call returned, no event has been handed to the engine
AfterCancel == last.op = "cancelAlerts" /\ last' = last

\* C18 as stated: after cancelPendingAlerts(a,t) has returned, no delayed alert
\* scheduled for (a,t) before the call is delivered.
NoDeliveryAfterCancel ==
  [][AfterCancel
       => \A m \in messages' \ messages : ~Matches(m, last.agent, last.task)]_vars

\* C18 amended: cancelPendingAlerts(a,t) removes every scheduled timer of (a,t)
\* and returns their number; after it has returned no timer scheduled for (a,t)
\* before the call fires, and the only alerts of (a,t) still delivered are those
\* whose timer had fired before the call (the race rule of the Timer Service).
NoTimerFiresAfterCancel ==
  [][/\ (last'.op = "cancelAlerts" /\ now' = now /\ last' # last)
         => /\ \A e \in scheduled' : ~Matches(e, last'.agent, last'.task)
            /\ last'.ret = ToString(Cardinality(scheduled \ scheduled'))
     /\ AfterCancel
         => /\ \A e \in firing' \ firing : ~Matches(e, last.agent, last.task)
            /\ \A m \in messages' \ messages :
                 Matches(m, last.agent, last.task) => m.raced]_vars

\* C18 witness: the alert of a block at the first instant was cancelled, its
\* delay has passed and nothing was delivered
CancelledAlertNeverDelivered ==
  /\ last.op = "cancelAlerts" /\ last.ret = "1"
  /\ "t1" \in DOMAIN tasks /\ tasks["t1"].blocked_at = 1
  /\ now = MaxNowAlerts
  /\ scheduled = {} /\ firing = {} /\ messages = {}

StatusEdgeAllowed(op, old, new) ==
  CASE op = "assignTask" -> old \in {"idle", "blocked", "sleeping"} /\ new = "working"
    [] op = "detectBlocked" -> old = "working" /\ new = "blocked"
    [] op = "completeTask" -> old = "working" /\ new \in {"idle", "sleeping"}
    [] op \in {"triggerSleep", "adminSleep"} ->
         old \notin {"sleeping", "offline"} /\ new = "sleeping"
    [] op = "triggerWake" -> old = "sleeping" /\ new = "idle"
    [] op = "adminStop" -> new = "offline"
    [] op = "adminRestart" -> new = "idle"
    [] OTHER -> TRUE

\* C19: every change of an agent's status follows an edge of the agent status
\* machine: assignTask idle|blocked|sleeping -> working, detectBlocked working
\* -> blocked, completeTask working -> idle|sleeping, a sleep request changes
\* nothing from sleeping or offline, wake sleeping -> idle, stop -> offline,
\* restart -> idle.
StatusChangesFollowEdges ==
  [][\A a \in DOMAIN agents \cap DOMAIN agents' :
       agents[a].status # agents'[a].status
         => StatusEdgeAllowed(last'.op, agents[a].status, agents'[a].status)]_vars

\* C20: no delayed alert fires for a task state the task has left: when the
\* timer of a blocked alert fires the task is blocked, and when the timer of
\* a completed alert fires the task is completed.
AlertsFireForCurrentState ==
  [][\A e \in firing' \ firing :
       /\ e.taskId \in DOMAIN tasks
       /\ e.trigger = "blocked" => tasks[e.taskId].status = "blocked"
       /\ e.trigger = "completed" => tasks[e.taskId].status = "completed"]_vars

LifecycleOps ==
  {"assignTask", "detectBlocked", "recordError", "refreshHeartbeat", "triggerSleep",
   "triggerWake", "completeTask"}

\* the operation recorded in op names an agent that does not exist, or (other
\* than assignTask, which creates its task) a task that does not exist
NamesMissingEntity(op) ==
  \/ op.agent \notin DOMAIN agents
  \/ op.op # "assignTask" /\ op.task # NULL /\ op.task \notin DOMAIN tasks

\* C23: no Lifecycle Manager operation throws when the agent or the task it
\* names does not exist; the call returns and leaves the Store unchanged.
LifecycleNeverThrowsOnMissing ==
  [][(last'.op \in LifecycleOps /\ NamesMissingEntity(last'))
       => (~last'.threw /\ UNCHANGED <<agents, tasks>>)]_vars

\* the idle timer of agent a, NoTime when none is pending
IdleTimerOf(timers, a) == IF a \in DOMAIN timers THEN timers[a] ELSE NoTime

\* C24: completeTask(a,t) has no effect when task t exists but belongs to an
\* agent other than a: the task's status, the status and current_task_id of a,
\* the idle timer of a and the alert events emitted are unchanged.
CompleteTaskOfOtherAgentNoEffect ==
  [][(/\ last'.op = "completeTask"
      /\ last'.task \in DOMAIN tasks
      /\ last'.agent \in DOMAIN agents
      /\ tasks[last'.task].agent_id # last'.agent)
       => /\ tasks'[last'.task].status = tasks[last'.task].status
          /\ agents'[last'.agent].status = agents[last'.agent].status
          /\ agents'[last'.agent].current_task_id = agents[last'.agent].current_task_id
          /\ IdleTimerOf(idleTimers', last'.agent) = IdleTimerOf(idleTimers, last'.agent)
          /\ last'.alerts = <<>>]_vars

\* the step is a direct call of op on an existing agent whose status is in statuses
CalledInStatus(op, statuses) ==
  /\ last'.op = op /\ now' = now
  /\ last'.agent \in DOMAIN agents
  /\ agents[last'.agent].status \in statuses

\* C29: triggerSleep on an agent that is sleeping or offline, and triggerWake
\* on an agent that is not sleeping, change nothing: the agent rows, the tasks
\* and the idle timers are unchanged and no agent:status event is published.
SleepWakeNoOps ==
  [][(\/ CalledInStatus("triggerSleep", {"sleeping", "offline"})
      \/ CalledInStatus("triggerWake", AgentStatuses \ {"sleeping"}))
       => (UNCHANGED <<agents, tasks, idleTimers>> /\ last'.events = <<>>)]_vars

\* C29 witness: triggerSleep was called on a stopped agent whose idle timer is
\* still pending, and published nothing
TriggerSleepOnOfflineAgent ==
  /\ last.op = "triggerSleep" /\ last.events = <<>>
  /\ "a1" \in DOMAIN agents /\ agents["a1"].status = "offline"
  /\ "a1" \in DOMAIN idleTimers


\* the setTimeout handles of a's idle monitor that are pending
PendingTimers(a) == {timer \in timeouts : timer.agent = a}

\* the step runs the idle check of agent a
IdleCheckRuns(a) == last'.op = "checkIdle" /\ last'.agent = a /\ now' = now

CounterOf(counters, a, t) ==
  IF ErrorKey(a, t) \in DOMAIN counters THEN counters[ErrorKey(a, t)]
  ELSE [count |-> 0, windowStart |-> NoTime]

\* the push throttle shouldSendMessage(a) reads, a zero count when there is none
ThrottleOf(throttles, a) ==
  IF a \in DOMAIN throttles THEN throttles[a] ELSE [lastSent |-> NoTime, count |-> 0]

\* C30: recordError(a, t) leaves the error count and window start of every
\* other pair (a', t') as they were, for ids that are arbitrary non-empty
\* strings, and shouldSendMessage(a) leaves the throttle of every other agent
\* as it was.
CountersIndependentPerKey ==
  [][/\ \A a \in KeyAgentIds, t \in KeyTaskIds :
          (last'.op = "recordError" /\ now' = now /\ <<last'.agent, last'.task>> # <<a, t>>)
            => CounterOf(errorCounters', a, t) = CounterOf(errorCounters, a, t)
     /\ \A a \in AgentIds :
          (last'.op = "shouldSendMessage" /\ now' = now /\ last'.agent # a)
            => ThrottleOf(messageThrottles', a) = ThrottleOf(messageThrottles, a)]_vars


\* a subscriber that reads the Store when it receives the event sees what the
\* event says of task t
Reports(action, store, t) ==
  /\ action = "task_completed" => t \in DOMAIN store.tasks /\ store.tasks[t].status = "completed"
  /\ action = "task_cancelled" => t \in DOMAIN store.tasks /\ store.tasks[t].status = "cancelled"
  /\ action = "blocked" => t \in DOMAIN store.tasks /\ store.tasks[t].status = "blocked"
  /\ action = "task_started" => t \in DOMAIN store.tasks /\ store.tasks[t].status = "in_progress"

\* every event of the handler run S was published after the writes it reports
PublishedAfterCommit(S, t) ==
  \A i \in 1..Len(S.events) : Reports(S.events[i], S.seen[i], t)

\* C22: every agent:status event is published only after the Store writes it
\* reports are committed: a subscriber that reads the Store at the moment it
\* receives a task_completed, task_cancelled, blocked or task_started event of
\* a task PATCH, of completeTask, of detectBlocked or of startAgentTask finds
\* the task in the status the event reports.
EventsPublishedAfterCommit ==
  [][/\ \A dataStatus \in PatchStatuses, dataReason \in PatchReasons :
          PatchTask("a1", "t1", dataStatus, dataReason)
            => PublishedAfterCommit(patchTaskRoute(Ctx, "a1", "t1", dataStatus, dataReason), "t1")
     /\ \A inWindow \in SleepWindowAnswers :
          CompleteTask("a1", "t1") => PublishedAfterCommit(completeTask(Ctx, "a1", "t1", inWindow), "t1")
     /\ \A source \in BlockSources :
          DetectBlocked("a1", "t1", source)
            => PublishedAfterCommit(detectBlocked(Ctx, "a1", source, "t1"), "t1")
     /\ StartAgentTask("a1", "t1") => PublishedAfterCommit(startAgentTask(Ctx, "a1", "t1"), "t1")]_vars


\* the step is a run of op during which a call of alertEngine.processEvent failed
AlertsFailedDuring(op) ==
  /\ last'.op = op /\ now' = now
  /\ \E i \in 1..Len(last'.calls) : last'.calls[i][1] = "processEvent"

\* C25: when alertEngine.processEvent fails during detectBlocked, completeTask
\* or the idle check, no error reaches the caller, the task and agent rows
\* the operation writes are written and its agent:status event is published.
AlertFailureNeverGatesLifecycle ==
  [][/\ AlertsFailedDuring("detectBlocked")
          => /\ ~last'.threw
             /\ tasks'[last'.task].status = "blocked"
             /\ last'.events = <<"blocked">>
     /\ AlertsFailedDuring("completeTask")
          => /\ ~last'.threw
             /\ tasks'[last'.task].status = "completed"
             /\ last'.events # <<>> /\ last'.events[Len(last'.events)] = "task_completed"
     /\ AlertsFailedDuring("checkIdle")
          => /\ ~last'.threw
             /\ (\E i \in 1..Len(last'.calls) : last'.calls[i][1] = "detectBlocked")
                  => last'.events = <<"blocked">>]_vars


\* a1's last heartbeat is more than 1800 seconds old and a1 has a pending task
HeartbeatTooOldWithPending ==
  /\ "a1" \in DOMAIN agents
  /\ agents["a1"].last_heartbeat # NoTime
  /\ Seconds(now) - agents["a1"].last_heartbeat > IdleTooLongSeconds
  /\ PendingTasks(Ctx, "a1") # {}

\* the idle check has just handed the Alert Engine an idle_too_long event for
\* one of a1's tasks
IdleTooLongAlerted ==
  /\ last.op = "checkIdle"
  /\ \E i \in 1..Len(last.alerts) :
       /\ last.alerts[i].trigger = "idle_too_long"
       /\ last.alerts[i].agentId = "a1"
       /\ last.alerts[i].taskId \in TaskIds

\* C27: whenever a1's last heartbeat is more than 1800 seconds old and a1 has a
\* pending task, an idle_too_long alert event for a pending task of a1 is
\* eventually passed to the Alert Engine.
IdleTooLongEventuallyAlerted == HeartbeatTooOldWithPending ~> IdleTooLongAlerted


\* C26: publish(e) calls every listener subscribed at that moment with e, after
\* the events it was called with before, and returns normally to the publisher
\* whatever a listener does.
PublishReachesEveryListener ==
  [][(last'.op = "publish" /\ listeners' = listeners)
       => /\ ~last'.threw
          /\ \A i \in 1..Len(listeners) :
               ReceivedBy(received', listeners[i].id)
                 = Append(ReceivedBy(received, listeners[i].id), last'.events[1])]_vars


\* the step is the one in which the stop of agent a returns
StopReturns(a) ==
  last'.op = "adminStop" /\ last'.agent = a /\ ~stopping'.active /\ a \in DOMAIN agents'

\* C21: when an admin stop of a1 runs while other requests for a1 are served
\* (task PATCH to in_progress, assign, heartbeat, complete), then at the moment
\* stop returns a1 is offline with current_task_id null and none of its tasks
\* is in_progress, as after a serial run of the requests.
StopLeavesNothingInProgress ==
  [][StopReturns("a1")
       => /\ agents'["a1"].status = "offline"
          /\ agents'["a1"].current_task_id = NULL
          /\ \A t \in DOMAIN tasks' :
               tasks'[t].agent_id = "a1" => tasks'[t].status # "in_progress"]_vars

=============================================================================
